---- MODULE Spec2Model ----
(***************************************************************************)
(* Mukon messenger: the on-chain relationship graph (register, invite,     *)
(* accept, reject, block, unblock, close_profile), the group registry and  *)
(* the chat identifier, modelled from programs/mukon-messenger/src/lib.rs. *)
(*                                                                         *)
(* An instruction is one transaction: the account constraints of its       *)
(* Accounts struct are evaluated first, then the handler runs on in-memory *)
(* copies of the accounts, and the copies are written back only when the   *)
(* handler returns Ok(()); an Err aborts the transaction and every account *)
(* keeps the bytes it had before it.                                       *)
(***************************************************************************)
EXTENDS Integers, Sequences, FiniteSets, TLC

\* ------------------------------------------------------------------ bounds

\* a public key is KeyLen bytes, each byte one of 0 .. ByteBase-1
KeyLen == 3
ByteBase == 3
\* identities that sign transactions: the public keys 1 .. NumIds (and one
\* more, NumIds + 1, in the specifications about a third party)
NumIds == 2
\* the clock takes the values 1 .. MaxTime
MaxTime == 2
\* identities that sign group transactions: the public keys 1 .. NumActors
NumActors == 3
\* members of the large group that never sign: NumFillers further public keys
NumFillers == 28
\* the leading slots of a contact list that take every value
NumSlots == 2
\* the public keys stored in and looked up in a contact list are 1 .. NumKeys
NumKeys == 2
\* token mints are the public keys 1 .. NumMints
NumMints == 2
\* token amounts and minimum balances are 0 .. MaxAmount
MaxAmount == 2
\* the contents of an encrypted key, and the nonces, are 1 .. NumBlobs
NumBlobs == 2

\* --------------------------------------------------------------- constants

\* Pubkey::default(): the all-zero key, the owner field of a zeroed account
DefaultPubkey == 0
\* require!(display_name.len() <= 32, ..)
MAX_DISPLAY_NAME == 32
\* 8 (discriminator) + 32 (owner) + 4 (Vec length): a descriptor with no peer
DESCRIPTOR_HEADER == 44
\* 32 + 1: one serialized Peer
PEER_SIZE == 33
\* space = 8 + 32 + 4 + 100 * (32 + 1): the peers a fresh descriptor has room for
INIT_PEERS == 100
\* require!(group.members.len() < 30, ErrorCode::GroupFull)
MAX_MEMBERS == 30
\* require!(name.len() <= 64, ErrorCode::GroupNameTooLong)
MAX_GROUP_NAME == 64
\* space = 8 + 32 + 32 + (4 + 48) + 24: the bytes of encrypted_key a share has room for
KEY_ROOM == 48
\* const MAX_CONTACTS: usize = 100
MAX_CONTACTS == 100
\* ContactEntry.status: 0=empty, 1=pending, 2=accepted, 3=rejected, 4=blocked
ACCEPTED == 2

RECURSIVE Pow(_, _)
Pow(b, n) == IF n = 0 THEN 1 ELSE b * Pow(b, n - 1)

Pubkeys == 0 .. (Pow(ByteBase, KeyLen) - 1)
Ids == 1 .. NumIds
Trio == 1 .. (NumIds + 1)

\* Pubkey::to_bytes: the key's bytes, most significant first
to_bytes(k) == [i \in 1 .. KeyLen |-> (k \div Pow(ByteBase, KeyLen - i)) % ByteBase]

Zeros(n) == [i \in 1 .. n |-> 0]

\* Sha256 is modelled as an injective tagging of the hashed buffer
Sha256(buf) == [sha256 |-> buf]

\* ------------------------------------------------------------ ChatIdentifier

\* the buffer c after the loop of get_chat_hash, entered at byte index i
RECURSIVE chat_buffer(_, _, _)
chat_buffer(a, b, i) ==
    IF i > KeyLen THEN Zeros(2 * KeyLen)
    ELSE IF to_bytes(a)[i] = to_bytes(b)[i] THEN chat_buffer(a, b, i + 1)
    ELSE IF to_bytes(a)[i] < to_bytes(b)[i] THEN to_bytes(a) \o to_bytes(b)
    ELSE to_bytes(b) \o to_bytes(a)

\* a plausible slip: the pair is hashed in argument order
get_chat_hash_unordered(a, b) == Sha256(to_bytes(a) \o to_bytes(b))

get_chat_hash(a, b) == Sha256(chat_buffer(a, b, 1))

\* the hashes a client may supply to invite
Hashes == {get_chat_hash(a, b) : a \in Trio, b \in Trio}

\* ------------------------------------------------------------------- state

VARIABLES
    desc,      \* WalletDescriptor account of each identity
    profile,   \* whether the UserProfile account of each identity exists
    conv,      \* Conversation account of each chat hash
    now,       \* Clock::get()?.unix_timestamp
    res,       \* the last instruction and its outcome
    hq,        \* the last evaluation of get_chat_hash on a pair of keys
    cq,        \* the last evaluation of the contact circuits on a contact list
    group,     \* the Group account of the group_id the model follows
    ginvite,   \* the GroupInvite account of each invitee for that group_id
    gkey,      \* the GroupKeyShare account of each member for that group_id
    stale,     \* whether an invitee's Pending invite was left by a group that was closed
    trail      \* for each pair of identities, what has succeeded since it was last Blocked

vars == <<desc, profile, conv, now, res, hq, cq, group, ginvite, gkey, stale, trail>>
relVars == <<desc, profile, conv>>
groupVars == <<group, ginvite, gkey, stale>>

\* an account that does not exist (no lamports, no data)
NoAccount == [owner |-> DefaultPubkey, peers |-> <<>>, size |-> 0]
Exists(d) == d.size > 0

NoConversation == [participants |-> <<DefaultPubkey, DefaultPubkey>>, created_at |-> 0]

INIT_SPACE == DESCRIPTOR_HEADER + INIT_PEERS * PEER_SIZE

\* init_if_needed on a missing account: created with `space` zeroed bytes
ZeroedDescriptor == [owner |-> DefaultPubkey, peers |-> <<>>, size |-> INIT_SPACE]

Peer(w, st) == [wallet |-> w, state |-> st]

PeerStates == {"Invited", "Requested", "Accepted", "Rejected", "Blocked"}

\* peers.iter().find(|p| p.wallet == w): index of the first entry, 0 for None
FindPeer(peers, w) ==
    IF \E i \in 1 .. Len(peers) : peers[i].wallet = w
    THEN CHOOSE i \in 1 .. Len(peers) :
            /\ peers[i].wallet = w
            /\ \A j \in 1 .. (i - 1) : peers[j].wallet # w
    ELSE 0

\* peers.iter().any(|p| p.wallet == w && p.state in sts)
AnyPeer(peers, w, sts) ==
    \E i \in 1 .. Len(peers) : peers[i].wallet = w /\ peers[i].state \in sts

\* for p in peers.iter_mut() { if p.wallet == w { p.state = st; break; } }
SetFirst(peers, w, st) ==
    LET i == FindPeer(peers, w)
    IN IF i = 0 THEN peers ELSE [peers EXCEPT ![i].state = st]

\* the state an identity's list holds for w ("None" when there is no entry)
StateOf(d, w) ==
    LET i == FindPeer(d.peers, w)
    IN IF i = 0 THEN "None" ELSE d.peers[i].state

Outcome(op, payer, peer, err) == [op |-> op, payer |-> payer, peer |-> peer, err |-> err]

\* the pairs of identities whose trail is kept
Pairs == {{a, b} : a \in Ids, b \in Ids} \ {{a} : a \in Ids}

\* a pair that has not been Blocked
NoTrail == [phase |-> "clear", invitee |-> DefaultPubkey]

\* both entries of the pair p are in the state st
PairIs(d, p, st) == \A a \in p : \A b \in p \ {a} : StateOf(d[a], b) = st

\* how far the pair p is through unblock, invite, accept by the invitee of
\* that invite, after the instruction with outcome r
trail_step(phase, invitee, r, p) ==
    IF ~(r.err = "Ok" /\ {r.payer, r.peer} = p) THEN phase
    ELSE IF phase = "blocked" /\ r.op = "unblock" THEN "unblocked"
    ELSE IF phase \in {"unblocked", "invited"} /\ r.op = "invite" THEN "invited"
    ELSE IF phase = "invited" /\ r.op = "accept" /\ r.payer = invitee THEN "accepted"
    ELSE phase

\* the trail after an instruction that left the descriptors d and the outcome
\* r: a pair that is Blocked starts over, any other pair moves on
Track(d, r) ==
    [p \in Pairs |->
        LET t == trail[p]
            phase == trail_step(t.phase, t.invitee, r, p)
        IN IF PairIs(d, p, "Blocked")
           THEN [phase |-> "blocked", invitee |-> DefaultPubkey]
           ELSE [phase |-> phase,
                 invitee |-> IF phase # "invited" THEN DefaultPubkey
                             ELSE IF r.err = "Ok" /\ r.op = "invite" /\ {r.payer, r.peer} = p
                             THEN r.peer ELSE t.invitee]]

\* Account::exit: the in-memory account is serialized into the account's data
Fits(d) == DESCRIPTOR_HEADER + PEER_SIZE * Len(d.peers) <= d.size

\* a transaction's writes reach the accounts only if the handler returned Ok(())
Commit_partial(err, old, new) == new

Commit(err, old, new) == IF err = "Ok" THEN new ELSE old

\* the two descriptor copies written back in field order (the payer's, then
\* the other party's)
WriteBack(a, b, da, db) == [desc EXCEPT ![a] = da, ![b] = db]

\* ---------------------------------------------------------------- register

\* the Register constraints: wallet_descriptor init_if_needed with the fixed
\* space, user_profile init
register_accounts(a) ==
    IF Exists(desc[a]) /\ desc[a].size # INIT_SPACE THEN "ConstraintSpace"
    ELSE IF profile[a] THEN "AccountInUse"
    ELSE "Ok"

\* a plausible slip: register starts every descriptor with an empty peer list
register_reset(d, payer, name_len) ==
    IF name_len > MAX_DISPLAY_NAME THEN [err |-> "DisplayNameTooLong", d |-> d]
    ELSE [err |-> "Ok", d |-> [d EXCEPT !.owner = payer, !.peers = <<>>]]

register(d, payer, name_len) ==
    IF name_len > MAX_DISPLAY_NAME THEN [err |-> "DisplayNameTooLong", d |-> d]
    ELSE IF d.owner = DefaultPubkey
         THEN [err |-> "Ok", d |-> [d EXCEPT !.owner = payer, !.peers = <<>>]]
         ELSE [err |-> "Ok", d |-> [d EXCEPT !.owner = payer]]

Register(a, name_len) ==
    LET pre == register_accounts(a)
        d0 == IF Exists(desc[a]) THEN desc[a] ELSE ZeroedDescriptor
        r == register(d0, a, name_len)
        err == IF pre # "Ok" THEN pre ELSE r.err
    IN /\ desc' = Commit(err, desc, [desc EXCEPT ![a] = r.d])
       /\ profile' = Commit(err, profile, [profile EXCEPT ![a] = TRUE])
       /\ res' = Outcome("register", a, DefaultPubkey, err)
       /\ trail' = Track(desc', res')
       /\ UNCHANGED <<conv, now, hq, cq, groupVars>>

\* ----------------------------------------------------------- close_profile

\* the accounts passed are those of identity acct; both must be the payer's
close_profile(payer, acct) ==
    IF acct # payer THEN "InvalidHash" ELSE "Ok"

CloseProfile(a, acct) ==
    LET err == close_profile(a, acct)
    IN /\ desc' = Commit(err, desc, [desc EXCEPT ![acct] = NoAccount])
       /\ profile' = Commit(err, profile, [profile EXCEPT ![acct] = FALSE])
       /\ res' = Outcome("close_profile", a, DefaultPubkey, err)
       /\ trail' = Track(desc', res')
       /\ UNCHANGED <<conv, now, hq, cq, groupVars>>

\* ------------------------------------------------------------------ invite

\* the Invite constraints: payer_descriptor must exist; invitee_descriptor is
\* init_if_needed with the fixed space
invite_accounts(s, c) ==
    IF ~Exists(desc[s]) THEN "AccountNotInitialized"
    ELSE IF Exists(desc[c]) /\ desc[c].size # INIT_SPACE THEN "ConstraintSpace"
    ELSE "Ok"

\* realloc = 8 + 32 + 4 + (payer_descriptor.peers.len() + 1) * (32 + 1)
invite_realloc(d) == [d EXCEPT !.size = DESCRIPTOR_HEADER + (Len(d.peers) + 1) * PEER_SIZE]

\* a plausible slip: an existing entry is overwritten whatever its state
invite_side_overwrite(d, other, st) ==
    LET i == FindPeer(d.peers, other)
    IN IF i = 0
       THEN [err |-> "Ok", d |-> [d EXCEPT !.peers = Append(@, Peer(other, st))]]
       ELSE [err |-> "Ok", d |-> [d EXCEPT !.peers[i].state = st]]

\* one side of invite: the match on the entry for `other`
invite_side(d, other, st) ==
    LET i == FindPeer(d.peers, other)
    IN IF i = 0
       THEN [err |-> "Ok", d |-> [d EXCEPT !.peers = Append(@, Peer(other, st))]]
       ELSE IF d.peers[i].state = "Rejected"
       THEN [err |-> "Ok", d |-> [d EXCEPT !.peers[i].state = st]]
       ELSE [err |-> "AlreadyInvited", d |-> d]

\* the handler on its in-memory copies: the outcome and the copies as the
\* handler left them when it returned
invite(payer_d, invitee_d, s, c, h) ==
    LET d0 == IF invitee_d.owner = DefaultPubkey
              THEN [invitee_d EXCEPT !.owner = c, !.peers = <<>>]
              ELSE invitee_d
        r1 == invite_side(payer_d, c, "Invited")
        r2 == invite_side(d0, s, "Requested")
    IN IF get_chat_hash(s, c) # h
       THEN [err |-> "InvalidHash", payer |-> payer_d, invitee |-> d0]
       ELSE IF r1.err # "Ok" THEN [err |-> r1.err, payer |-> payer_d, invitee |-> d0]
       ELSE IF r2.err # "Ok" THEN [err |-> r2.err, payer |-> r1.d, invitee |-> d0]
       ELSE [err |-> "Ok", payer |-> r1.d, invitee |-> r2.d]

\* a plausible slip: the participants are stored in key order
invite_conversation_sorted(s, c, t) ==
    [participants |-> IF s < c THEN <<s, c>> ELSE <<c, s>>, created_at |-> t]

\* conversation.participants = [inviter, invitee]; created_at = now
invite_conversation(s, c, t) == [participants |-> <<s, c>>, created_at |-> t]

Invite(s, c, h) ==
    LET pre == invite_accounts(s, c)
        payer_d == invite_realloc(desc[s])
        invitee_d == IF Exists(desc[c]) THEN desc[c] ELSE ZeroedDescriptor
        r == invite(payer_d, invitee_d, s, c, h)
        out == WriteBack(s, c, r.payer, r.invitee)
        err == IF pre # "Ok" THEN pre
               ELSE IF r.err # "Ok" THEN r.err
               ELSE IF ~(Fits(out[s]) /\ Fits(out[c])) THEN "AccountDidNotSerialize"
               ELSE "Ok"
    IN /\ desc' = Commit(err, desc, out)
       /\ conv' = Commit(err, conv, [conv EXCEPT ![h] = invite_conversation(s, c, now)])
       /\ res' = Outcome("invite", s, c, err)
       /\ trail' = Track(desc', res')
       /\ UNCHANGED <<profile, now, hq, cq, groupVars>>

\* ------------------------------------------- accept, reject, block, unblock

\* the constraints shared by Accept, Reject, Block and Unblock: both
\* descriptors must exist
pair_accounts(me, peer) ==
    IF ~Exists(desc[me]) \/ ~Exists(desc[peer]) THEN "AccountNotInitialized" ELSE "Ok"

\* a handler of the shape: require on my side, require on the peer's side,
\* then set the first matching entry on both sides
pair_update(me_d, peer_d, me, peer, my_sts, my_err, peer_sts, peer_err, st) ==
    IF ~AnyPeer(me_d.peers, peer, my_sts)
    THEN [err |-> my_err, payer |-> me_d, peer |-> peer_d]
    ELSE IF ~AnyPeer(peer_d.peers, me, peer_sts)
    THEN [err |-> peer_err, payer |-> me_d, peer |-> peer_d]
    ELSE [err |-> "Ok",
          payer |-> [me_d EXCEPT !.peers = SetFirst(@, peer, st)],
          peer |-> [peer_d EXCEPT !.peers = SetFirst(@, me, st)]]

\* a plausible slip: the side that sent the invite may accept it as well
accept_either(me_d, peer_d, me, peer) ==
    pair_update(me_d, peer_d, me, peer, {"Requested", "Invited"}, "NotRequested",
                {"Invited", "Requested"}, "NotInvited", "Accepted")

\* a plausible slip: accept writes the caller's side only
accept_one_sided(me_d, peer_d, me, peer) ==
    IF ~AnyPeer(me_d.peers, peer, {"Requested"})
    THEN [err |-> "NotRequested", payer |-> me_d, peer |-> peer_d]
    ELSE IF ~AnyPeer(peer_d.peers, me, {"Invited"})
    THEN [err |-> "NotInvited", payer |-> me_d, peer |-> peer_d]
    ELSE [err |-> "Ok",
          payer |-> [me_d EXCEPT !.peers = SetFirst(@, peer, "Accepted")],
          peer |-> peer_d]

accept(me_d, peer_d, me, peer) ==
    pair_update(me_d, peer_d, me, peer, {"Requested"}, "NotRequested",
                {"Invited"}, "NotInvited", "Accepted")

\* a plausible slip: reject only of a pending invite, never of an accepted contact
reject_pending(me_d, peer_d, me, peer) ==
    pair_update(me_d, peer_d, me, peer, {"Requested"}, "NotRequested",
                {"Invited"}, "NotInvited", "Rejected")

reject(me_d, peer_d, me, peer) ==
    pair_update(me_d, peer_d, me, peer, {"Requested", "Accepted"}, "NotRequested",
                {"Invited", "Accepted"}, "NotInvited", "Rejected")

\* a plausible slip: block writes the caller's side only
block_one_sided(me_d, peer_d, me, peer) ==
    IF ~AnyPeer(me_d.peers, peer, PeerStates)
    THEN [err |-> "NotInvited", payer |-> me_d, peer |-> peer_d]
    ELSE IF ~AnyPeer(peer_d.peers, me, PeerStates)
    THEN [err |-> "NotInvited", payer |-> me_d, peer |-> peer_d]
    ELSE [err |-> "Ok",
          payer |-> [me_d EXCEPT !.peers = SetFirst(@, peer, "Blocked")],
          peer |-> peer_d]

block(me_d, peer_d, me, peer) ==
    pair_update(me_d, peer_d, me, peer, PeerStates, "NotInvited",
                PeerStates, "NotInvited", "Blocked")

\* a plausible slip: unblock restores an accepted contact
unblock_restore(me_d, peer_d, me, peer) ==
    pair_update(me_d, peer_d, me, peer, {"Blocked"}, "NotInvited",
                {"Blocked"}, "NotInvited", "Accepted")

unblock(me_d, peer_d, me, peer) ==
    pair_update(me_d, peer_d, me, peer, {"Blocked"}, "NotInvited",
                {"Blocked"}, "NotInvited", "Rejected")

\* one transaction of a pair instruction whose handler returned r
PairTx(op, me, peer, r) ==
    LET pre == pair_accounts(me, peer)
        out == WriteBack(me, peer, r.payer, r.peer)
        err == IF pre # "Ok" THEN pre
               ELSE IF r.err # "Ok" THEN r.err
               ELSE IF ~(Fits(out[me]) /\ Fits(out[peer])) THEN "AccountDidNotSerialize"
               ELSE "Ok"
    IN /\ desc' = Commit(err, desc, out)
       /\ res' = Outcome(op, me, peer, err)
       /\ trail' = Track(desc', res')
       /\ UNCHANGED <<profile, conv, now, hq, cq, groupVars>>

Accept(me, peer) == PairTx("accept", me, peer, accept(desc[me], desc[peer], me, peer))

Reject(me, peer) == PairTx("reject", me, peer, reject(desc[me], desc[peer], me, peer))

Block(me, peer) == PairTx("block", me, peer, block(desc[me], desc[peer], me, peer))

Unblock(me, peer) == PairTx("unblock", me, peer, unblock(desc[me], desc[peer], me, peer))

\* the clock advances between transactions
Tick ==
    /\ now < MaxTime
    /\ now' = now + 1
    /\ UNCHANGED <<desc, profile, conv, res, hq, cq, groupVars, trail>>

\* ------------------------------------------------------------------ groups

Actors == 1 .. NumActors
\* the passive members: public keys above those of the actors
Fillers == [i \in 1 .. NumFillers |-> NumActors + i]

\* Option<TokenGate>::None, and the absent Option<Account<TokenAccount>>
NoGate == [token_mint |-> DefaultPubkey, min_balance |-> 0, some |-> FALSE]
Gate(mint, min) == [token_mint |-> mint, min_balance |-> min, some |-> TRUE]
NoTokenAccount == [owner |-> DefaultPubkey, mint |-> DefaultPubkey, amount |-> 0, some |-> FALSE]
TokenAccount(owner, mint, amount) == [owner |-> owner, mint |-> mint, amount |-> amount, some |-> TRUE]

\* a String is kept as its length; NoName is Option<String>::None
NoName == -1
NoGroup == [exists |-> FALSE, creator |-> DefaultPubkey, name |-> 0, members |-> <<>>,
            token_gate |-> NoGate]
NoGroupInvite == [exists |-> FALSE, inviter |-> DefaultPubkey, invitee |-> DefaultPubkey,
                  status |-> "Pending"]

\* members.contains(&k)
Contains(members, k) == \E i \in 1 .. Len(members) : members[i] = k

\* members.retain(|m| m != &k)
RECURSIVE Retain(_, _)
Retain(members, k) ==
    IF members = <<>> THEN <<>>
    ELSE IF Head(members) = k THEN Retain(Tail(members), k)
    ELSE <<Head(members)>> \o Retain(Tail(members), k)

\* create_group: the Group account is `init`, so it must not exist yet
create_group(g, payer, name_len, gate) ==
    IF g.exists THEN [err |-> "AccountInUse", g |-> g]
    ELSE IF name_len > MAX_GROUP_NAME THEN [err |-> "GroupNameTooLong", g |-> g]
    ELSE [err |-> "Ok",
          g |-> [exists |-> TRUE, creator |-> payer, name |-> name_len, members |-> <<payer>>,
                 token_gate |-> gate]]

CreateGroup(a, name_len, gate) ==
    LET r == create_group(group, a, name_len, gate)
    IN /\ group' = Commit(r.err, group, r.g)
       /\ res' = Outcome("create_group", a, DefaultPubkey, r.err)
       /\ UNCHANGED <<relVars, trail, gkey, stale, now, hq, cq, ginvite>>

\* a plausible slip: the gate argument is stored as given, None included
update_group_clear(g, payer, name, gate) ==
    IF ~g.exists THEN [err |-> "AccountNotInitialized", g |-> g]
    ELSE IF g.creator # payer THEN [err |-> "NotGroupAdmin", g |-> g]
    ELSE IF name # NoName /\ name > MAX_GROUP_NAME THEN [err |-> "GroupNameTooLong", g |-> g]
    ELSE [err |-> "Ok",
          g |-> [g EXCEPT !.name = IF name # NoName THEN name ELSE @,
                          !.token_gate = gate]]

\* update_group with name: Option<String> and token_gate: Option<TokenGate>
update_group(g, payer, name, gate) ==
    IF ~g.exists THEN [err |-> "AccountNotInitialized", g |-> g]
    ELSE IF g.creator # payer THEN [err |-> "NotGroupAdmin", g |-> g]
    ELSE IF name # NoName /\ name > MAX_GROUP_NAME THEN [err |-> "GroupNameTooLong", g |-> g]
    ELSE [err |-> "Ok",
          g |-> [g EXCEPT !.name = IF name # NoName THEN name ELSE @,
                          !.token_gate = IF gate.some THEN gate ELSE @]]

UpdateGroup(a, name, gate) ==
    LET r == update_group(group, a, name, gate)
    IN /\ group' = Commit(r.err, group, r.g)
       /\ res' = Outcome("update_group", a, DefaultPubkey, r.err)
       /\ UNCHANGED <<relVars, trail, gkey, stale, now, hq, cq, ginvite>>

\* a plausible slip: the caller's membership is not checked
invite_to_group_anyone(g, payer, invitee) ==
    IF ~g.exists THEN [err |-> "AccountNotInitialized", inv |-> NoGroupInvite]
    ELSE IF ~(Len(g.members) < MAX_MEMBERS) THEN [err |-> "GroupFull", inv |-> NoGroupInvite]
    ELSE IF Contains(g.members, invitee) THEN [err |-> "AlreadyInvited", inv |-> NoGroupInvite]
    ELSE [err |-> "Ok",
          inv |-> [exists |-> TRUE, inviter |-> payer, invitee |-> invitee, status |-> "Pending"]]

\* invite_to_group: the GroupInvite account of the invitee is init_if_needed
invite_to_group(g, payer, invitee) ==
    IF ~g.exists THEN [err |-> "AccountNotInitialized", inv |-> NoGroupInvite]
    ELSE IF ~Contains(g.members, payer) THEN [err |-> "NotGroupMember", inv |-> NoGroupInvite]
    ELSE IF ~(Len(g.members) < MAX_MEMBERS) THEN [err |-> "GroupFull", inv |-> NoGroupInvite]
    ELSE IF Contains(g.members, invitee) THEN [err |-> "AlreadyInvited", inv |-> NoGroupInvite]
    ELSE [err |-> "Ok",
          inv |-> [exists |-> TRUE, inviter |-> payer, invitee |-> invitee, status |-> "Pending"]]

InviteToGroup(a, invitee) ==
    LET r == invite_to_group(group, a, invitee)
    IN /\ ginvite' = Commit(r.err, ginvite, [ginvite EXCEPT ![invitee] = r.inv])
       /\ res' = Outcome("invite_to_group", a, invitee, r.err)
       /\ stale' = Commit(r.err, stale, [stale EXCEPT ![invitee] = FALSE])
       /\ UNCHANGED <<relVars, trail, gkey, now, hq, cq, group>>

\* a plausible slip: the owner of the token account is not compared with the payer
token_gate_check_noowner(gate, payer, acct) ==
    IF ~gate.some THEN "Ok"
    ELSE IF ~acct.some THEN "TokenAccountRequired"
    ELSE IF acct.mint # gate.token_mint THEN "InsufficientTokenBalance"
    ELSE IF ~(acct.amount >= gate.min_balance) THEN "InsufficientTokenBalance"
    ELSE "Ok"

\* the token gate check of accept_group_invite: "Ok" or the error it raises
token_gate_check(gate, payer, acct) ==
    IF ~gate.some THEN "Ok"
    ELSE IF ~acct.some THEN "TokenAccountRequired"
    ELSE IF acct.owner # payer THEN "InvalidTokenAccount"
    ELSE IF acct.mint # gate.token_mint THEN "InsufficientTokenBalance"
    ELSE IF ~(acct.amount >= gate.min_balance) THEN "InsufficientTokenBalance"
    ELSE "Ok"

\* a plausible slip: the group is not checked for being full on accept
accept_group_invite_nofull(g, inv, payer, acct) ==
    IF ~g.exists \/ ~inv.exists THEN [err |-> "AccountNotInitialized", g |-> g, inv |-> inv]
    ELSE IF inv.status # "Pending" THEN [err |-> "NotInvited", g |-> g, inv |-> inv]
    ELSE IF inv.invitee # payer THEN [err |-> "NotInvited", g |-> g, inv |-> inv]
    ELSE IF token_gate_check(g.token_gate, payer, acct) # "Ok"
    THEN [err |-> token_gate_check(g.token_gate, payer, acct), g |-> g, inv |-> inv]
    ELSE [err |-> "Ok",
          g |-> [g EXCEPT !.members = Append(@, payer)],
          inv |-> [inv EXCEPT !.status = "Accepted"]]

\* accept_group_invite on the Group account and the payer's GroupInvite account
accept_group_invite(g, inv, payer, acct) ==
    IF ~g.exists \/ ~inv.exists THEN [err |-> "AccountNotInitialized", g |-> g, inv |-> inv]
    ELSE IF inv.status # "Pending" THEN [err |-> "NotInvited", g |-> g, inv |-> inv]
    ELSE IF inv.invitee # payer THEN [err |-> "NotInvited", g |-> g, inv |-> inv]
    ELSE IF token_gate_check(g.token_gate, payer, acct) # "Ok"
    THEN [err |-> token_gate_check(g.token_gate, payer, acct), g |-> g, inv |-> inv]
    ELSE IF ~(Len(g.members) < MAX_MEMBERS) THEN [err |-> "GroupFull", g |-> g, inv |-> inv]
    ELSE [err |-> "Ok",
          g |-> [g EXCEPT !.members = Append(@, payer)],
          inv |-> [inv EXCEPT !.status = "Accepted"]]

AcceptGroupInvite(a, acct) ==
    LET r == accept_group_invite(group, ginvite[a], a, acct)
    IN /\ group' = Commit(r.err, group, r.g)
       /\ ginvite' = Commit(r.err, ginvite, [ginvite EXCEPT ![a] = r.inv])
       /\ res' = Outcome("accept_group_invite", a, DefaultPubkey, r.err)
       /\ stale' = Commit(r.err, stale, [stale EXCEPT ![a] = FALSE])
       /\ UNCHANGED <<relVars, trail, gkey, now, hq, cq>>

\* a plausible slip: an invite is rejected whatever its status
reject_group_invite_nostatus(inv, payer) ==
    IF ~inv.exists THEN [err |-> "AccountNotInitialized", inv |-> inv]
    ELSE IF inv.invitee # payer THEN [err |-> "NotInvited", inv |-> inv]
    ELSE [err |-> "Ok", inv |-> [inv EXCEPT !.status = "Rejected"]]

\* reject_group_invite on the payer's GroupInvite account
reject_group_invite(inv, payer) ==
    IF ~inv.exists THEN [err |-> "AccountNotInitialized", inv |-> inv]
    ELSE IF inv.status # "Pending" THEN [err |-> "NotInvited", inv |-> inv]
    ELSE IF inv.invitee # payer THEN [err |-> "NotInvited", inv |-> inv]
    ELSE [err |-> "Ok", inv |-> [inv EXCEPT !.status = "Rejected"]]

RejectGroupInvite(a) ==
    LET r == reject_group_invite(ginvite[a], a)
    IN /\ ginvite' = Commit(r.err, ginvite, [ginvite EXCEPT ![a] = r.inv])
       /\ res' = Outcome("reject_group_invite", a, DefaultPubkey, r.err)
       /\ stale' = Commit(r.err, stale, [stale EXCEPT ![a] = FALSE])
       /\ UNCHANGED <<relVars, trail, gkey, now, hq, cq, group>>

\* a plausible slip: leave does not single out the creator
leave_group_any(g, payer) ==
    IF ~g.exists THEN [err |-> "AccountNotInitialized", g |-> g]
    ELSE IF ~Contains(g.members, payer) THEN [err |-> "NotGroupMember", g |-> g]
    ELSE [err |-> "Ok", g |-> [g EXCEPT !.members = Retain(@, payer)]]

\* leave_group on the Group account
leave_group(g, payer) ==
    IF ~g.exists THEN [err |-> "AccountNotInitialized", g |-> g]
    ELSE IF ~(g.creator # payer) THEN [err |-> "CannotRemoveCreator", g |-> g]
    ELSE IF ~Contains(g.members, payer) THEN [err |-> "NotGroupMember", g |-> g]
    ELSE [err |-> "Ok", g |-> [g EXCEPT !.members = Retain(@, payer)]]

LeaveGroup(a) ==
    LET r == leave_group(group, a)
    IN /\ group' = Commit(r.err, group, r.g)
       /\ res' = Outcome("leave_group", a, DefaultPubkey, r.err)
       /\ UNCHANGED <<relVars, trail, gkey, stale, now, hq, cq, ginvite>>

\* a plausible slip: the member is removed with swap_remove, which moves the
\* last member into its place
kick_member_swap(g, payer, member) ==
    IF ~g.exists THEN [err |-> "AccountNotInitialized", g |-> g]
    ELSE IF g.creator # payer THEN [err |-> "NotGroupAdmin", g |-> g]
    ELSE IF ~(member # g.creator) THEN [err |-> "CannotRemoveCreator", g |-> g]
    ELSE IF ~Contains(g.members, member) THEN [err |-> "NotGroupMember", g |-> g]
    ELSE LET n == Len(g.members)
             i == CHOOSE k \in 1 .. n : g.members[k] = member
             short == SubSeq(g.members, 1, n - 1)
         IN [err |-> "Ok",
             g |-> [g EXCEPT !.members = IF i = n THEN short
                                         ELSE [short EXCEPT ![i] = g.members[n]]]]

\* kick_member on the Group account; `member` is the account of the target
kick_member(g, payer, member) ==
    IF ~g.exists THEN [err |-> "AccountNotInitialized", g |-> g]
    ELSE IF g.creator # payer THEN [err |-> "NotGroupAdmin", g |-> g]
    ELSE IF ~(member # g.creator) THEN [err |-> "CannotRemoveCreator", g |-> g]
    ELSE IF ~Contains(g.members, member) THEN [err |-> "NotGroupMember", g |-> g]
    ELSE [err |-> "Ok", g |-> [g EXCEPT !.members = Retain(@, member)]]

KickMember(a, member) ==
    LET r == kick_member(group, a, member)
    IN /\ group' = Commit(r.err, group, r.g)
       /\ res' = Outcome("kick_member", a, member, r.err)
       /\ UNCHANGED <<relVars, trail, gkey, stale, now, hq, cq, ginvite>>

\* close_group: `close = payer` destroys the Group account; the GroupInvite
\* accounts stay
close_group(g, payer) ==
    IF ~g.exists THEN [err |-> "AccountNotInitialized", g |-> g]
    ELSE IF g.creator # payer THEN [err |-> "NotGroupAdmin", g |-> g]
    ELSE [err |-> "Ok", g |-> NoGroup]

\* the invites that are Pending when their group is closed are left behind
LeftPending(invs, old) ==
    [a \in DOMAIN invs |-> old[a] \/ (invs[a].exists /\ invs[a].status = "Pending")]

CloseGroup(a) ==
    LET r == close_group(group, a)
    IN /\ group' = Commit(r.err, group, r.g)
       /\ res' = Outcome("close_group", a, DefaultPubkey, r.err)
       /\ stale' = Commit(r.err, stale, LeftPending(ginvite, stale))
       /\ UNCHANGED <<relVars, trail, gkey, now, hq, cq, ginvite>>

\* -------------------------------------------------------------- key shares

\* a Vec<u8> is kept as its length and a tag for its content
Blob(len, tag) == [len |-> len, tag |-> tag]

NoKeyShare == [exists |-> FALSE, member |-> DefaultPubkey, encrypted_key |-> Blob(0, 0),
               nonce |-> 0]

\* a plausible slip: the caller's membership is not checked
store_group_key_anyone(g, share, payer, acct, encrypted_key, nonce) ==
    IF acct # payer THEN [err |-> "ConstraintSeeds", share |-> share]
    ELSE IF ~g.exists THEN [err |-> "AccountNotInitialized", share |-> share]
    ELSE IF encrypted_key.len > KEY_ROOM THEN [err |-> "AccountDidNotSerialize", share |-> share]
    ELSE [err |-> "Ok",
          share |-> [exists |-> TRUE, member |-> payer, encrypted_key |-> encrypted_key,
                     nonce |-> nonce]]

\* store_group_key on the GroupKeyShare account of identity acct (init_if_needed,
\* seeded by the payer) and the Group account; the share has room for a key
\* of 48 bytes
store_group_key(g, share, payer, acct, encrypted_key, nonce) ==
    IF acct # payer THEN [err |-> "ConstraintSeeds", share |-> share]
    ELSE IF ~g.exists THEN [err |-> "AccountNotInitialized", share |-> share]
    ELSE IF ~Contains(g.members, payer) THEN [err |-> "NotGroupMember", share |-> share]
    ELSE IF encrypted_key.len > KEY_ROOM THEN [err |-> "AccountDidNotSerialize", share |-> share]
    ELSE [err |-> "Ok",
          share |-> [exists |-> TRUE, member |-> payer, encrypted_key |-> encrypted_key,
                     nonce |-> nonce]]

StoreGroupKey(a, acct, encrypted_key, nonce) ==
    LET r == store_group_key(group, gkey[acct], a, acct, encrypted_key, nonce)
    IN /\ gkey' = Commit(r.err, gkey, [gkey EXCEPT ![acct] = r.share])
       /\ res' = Outcome("store_group_key", a, acct, r.err)
       /\ UNCHANGED <<relVars, trail, stale, now, hq, cq, group, ginvite>>

\* close_group_key on the GroupKeyShare account of identity acct (seeded by
\* the payer, `close = payer`)
close_group_key(share, payer, acct) ==
    IF ~share.exists THEN [err |-> "AccountNotInitialized", share |-> share]
    ELSE IF acct # payer THEN [err |-> "ConstraintSeeds", share |-> share]
    ELSE IF ~(share.member = payer) THEN [err |-> "Unauthorized", share |-> share]
    ELSE [err |-> "Ok", share |-> NoKeyShare]

CloseGroupKey(a, acct) ==
    LET r == close_group_key(gkey[acct], a, acct)
    IN /\ gkey' = Commit(r.err, gkey, [gkey EXCEPT ![acct] = r.share])
       /\ res' = Outcome("close_group_key", a, acct, r.err)
       /\ UNCHANGED <<relVars, trail, stale, now, hq, cq, group, ginvite>>

\* ---------------------------------------------------------------- circuits

ContactEntry(k, st) == [pubkey |-> k, status |-> st]
EmptyEntry == ContactEntry(DefaultPubkey, 0)

\* ContactList: contacts[i] of the code is contacts[i + 1] here
ContactList(contacts, count) == [contacts |-> contacts, count |-> count]

\* v, then e: the value of e, with v computed first (an argument is
\* otherwise only computed when it is used, which nests deeply in a long loop)
Then(v, e) == IF v = v THEN e ELSE e

\* the body of the loop of is_accepted_contact for slot i
contact_step_noactive(list, q, i, is_contact) ==
    IF list.contacts[i + 1].pubkey = q /\ list.contacts[i + 1].status = ACCEPTED
    THEN TRUE
    ELSE is_contact

contact_step(list, q, i, is_contact) ==
    IF i < list.count
    THEN IF list.contacts[i + 1].pubkey = q /\ list.contacts[i + 1].status = ACCEPTED
         THEN TRUE
         ELSE is_contact
    ELSE is_contact

\* a plausible slip: the scan stops at the first match
contact_iter_early(list, q, s, i) ==
    IF s.out
    THEN s
    ELSE [out |-> contact_step(list, q, i, s.out), visited |-> Append(s.visited, i)]

\* iteration i of the loop of is_accepted_contact, from the loop state s:
\* is_contact so far and the slots visited so far
contact_iter(list, q, s, i) ==
    [out |-> contact_step(list, q, i, s.out), visited |-> Append(s.visited, i)]

\* the iterations lo .. hi - 1 of `for i in 0..MAX_CONTACTS`, run in order
\* from the loop state s (the range is halved to keep the evaluation shallow)
RECURSIVE contact_for(_, _, _, _, _)
contact_for(list, q, s, lo, hi) ==
    IF lo >= hi THEN s
    ELSE IF hi = lo + 1 THEN contact_iter(list, q, s, lo)
    ELSE LET mid == (lo + hi) \div 2
             left == contact_for(list, q, s, lo, mid)
         IN Then(left, contact_for(list, q, left, mid, hi))

is_accepted_contact(list, q) ==
    contact_for(list, q, [out |-> FALSE, visited |-> <<>>], 0, MAX_CONTACTS)

\* the body of the loop of count_accepted for slot i
count_step_noactive(list, i, count) ==
    IF list.contacts[i + 1].status = ACCEPTED THEN count + 1 ELSE count

count_step(list, i, count) ==
    IF i < list.count
    THEN IF list.contacts[i + 1].status = ACCEPTED THEN count + 1 ELSE count
    ELSE count

\* iteration i of the loop of count_accepted, from the loop state s
count_iter(list, s, i) ==
    [out |-> count_step(list, i, s.out), visited |-> Append(s.visited, i)]

\* the iterations lo .. hi - 1 of `for i in 0..MAX_CONTACTS`, run in order
RECURSIVE count_for(_, _, _, _)
count_for(list, s, lo, hi) ==
    IF lo >= hi THEN s
    ELSE IF hi = lo + 1 THEN count_iter(list, s, lo)
    ELSE LET mid == (lo + hi) \div 2
             left == count_for(list, s, lo, mid)
         IN Then(left, count_for(list, left, mid, hi))

count_accepted(list) ==
    count_for(list, [out |-> 0, visited |-> <<>>], 0, MAX_CONTACTS)

NoCircuit ==
    [list |-> ContactList(<<>>, 0), q |-> DefaultPubkey, op |-> "none",
     out |-> 0, visited |-> <<>>]

IsAcceptedContact ==
    /\ cq.op = "none"
    /\ cq' = [cq EXCEPT !.op = "is_accepted_contact",
                        !.out = is_accepted_contact(cq.list, cq.q).out,
                        !.visited = is_accepted_contact(cq.list, cq.q).visited]
    /\ UNCHANGED <<relVars, trail, now, res, hq, groupVars>>

CountAccepted ==
    /\ cq.op = "none"
    /\ cq' = [cq EXCEPT !.op = "count_accepted",
                        !.out = count_accepted(cq.list).out,
                        !.visited = count_accepted(cq.list).visited]
    /\ UNCHANGED <<relVars, trail, now, res, hq, groupVars>>

\* ------------------------------------------------------------------ mirror

\* the status byte the owner's client stores for a relationship state
\* (ContactEntry.status: 1=pending, 2=accepted, 3=rejected, 4=blocked)
status_code(st) ==
    CASE st = "Invited" -> ACCEPTED - 1
      [] st = "Requested" -> ACCEPTED - 1
      [] st = "Accepted" -> ACCEPTED
      [] st = "Rejected" -> ACCEPTED + 1
      [] st = "Blocked" -> ACCEPTED + 2

\* the contact list the owner's client keeps for a descriptor: one slot per
\* relationship entry, in order, the other slots empty
mirror(d) ==
    ContactList([i \in 1 .. MAX_CONTACTS |->
                    IF i <= Len(d.peers)
                    THEN ContactEntry(d.peers[i].wallet, status_code(d.peers[i].state))
                    ELSE EmptyEntry],
                Len(d.peers))

\* the owner a refreshes its mirror and asks whether q is an accepted contact
MirrorQuery(a, q) ==
    /\ LET r == is_accepted_contact(mirror(desc[a]), q)
       IN cq' = [list |-> mirror(desc[a]), q |-> q, op |-> "is_accepted_contact",
                 out |-> r.out, visited |-> r.visited]
    /\ UNCHANGED <<relVars, trail, now, res, hq, groupVars>>

\* ------------------------------------------------------------ specification

NoQuery == [a |-> DefaultPubkey, b |-> DefaultPubkey,
            ab |-> Sha256(<<>>), ba |-> Sha256(<<>>), done |-> FALSE]

Init ==
    /\ desc = [a \in Trio |-> NoAccount]
    /\ profile = [a \in Trio |-> FALSE]
    /\ conv = [h \in Hashes |-> NoConversation]
    /\ now = 1
    /\ res = Outcome("none", DefaultPubkey, DefaultPubkey, "Ok")
    /\ hq = NoQuery
    /\ cq = NoCircuit
    /\ group = NoGroup
    /\ ginvite = [a \in Actors |-> NoGroupInvite]
    /\ gkey = [a \in Actors |-> NoKeyShare]
    /\ stale = [a \in Actors |-> FALSE]
    /\ trail = [p \in Pairs |-> NoTrail]

\* the relationship instructions signed by the identities of I; the two
\* parties of an instruction are distinct identities (equal ones are not a
\* valid input of the chat identifier)
RegisterAny(I) == \E a \in I, n \in {MAX_DISPLAY_NAME, MAX_DISPLAY_NAME + 1} : Register(a, n)
CloseProfileAny(I) == \E a \in I, acct \in I : CloseProfile(a, acct)
InviteAny(I) == \E s \in I : \E c \in I \ {s}, h \in Hashes : Invite(s, c, h)
AcceptAny(I) == \E me \in I : \E peer \in I \ {me} : Accept(me, peer)
RejectAny(I) == \E me \in I : \E peer \in I \ {me} : Reject(me, peer)
BlockAny(I) == \E me \in I : \E peer \in I \ {me} : Block(me, peer)
UnblockAny(I) == \E me \in I : \E peer \in I \ {me} : Unblock(me, peer)

Next ==
    \/ RegisterAny(Ids)
    \/ CloseProfileAny(Ids)
    \/ InviteAny(Ids)
    \/ AcceptAny(Ids)
    \/ RejectAny(Ids)
    \/ BlockAny(Ids)
    \/ UnblockAny(Ids)
    \/ Tick

Spec == Init /\ [][Next]_vars

\* three identities that register, invite and accept
NextTrio ==
    \/ RegisterAny(Trio)
    \/ InviteAny(Trio)
    \/ AcceptAny(Trio)

SpecTrio == Init /\ [][NextTrio]_vars

\* three identities that register and invite
NextInvite ==
    \/ RegisterAny(Trio)
    \/ InviteAny(Trio)

SpecInvite == Init /\ [][NextInvite]_vars

\* every relationship instruction but close_profile, signed by the identities
\* and aimed at any of them or at a third party that never signs; an invite
\* carries the hash of the pair or a wrong one
NextPair ==
    \/ RegisterAny(Ids)
    \/ \E s \in Ids : \E c \in Trio \ {s} :
            \E h \in {get_chat_hash(s, c), get_chat_hash(s, s)} : Invite(s, c, h)
    \/ \E me \in Ids : \E peer \in Trio \ {me} : Accept(me, peer)
    \/ \E me \in Ids : \E peer \in Trio \ {me} : Reject(me, peer)
    \/ \E me \in Ids : \E peer \in Trio \ {me} : Block(me, peer)
    \/ \E me \in Ids : \E peer \in Trio \ {me} : Unblock(me, peer)

SpecPair == Init /\ [][NextPair]_vars

\* two identities that register, invite, accept and reject, and query their
\* mirrors in between
NextMirror ==
    \/ RegisterAny(Ids)
    \/ InviteAny(Ids)
    \/ AcceptAny(Ids)
    \/ RejectAny(Ids)
    \/ \E a \in Ids : \E q \in Ids \ {a} : MirrorQuery(a, q)

SpecMirror == Init /\ [][NextMirror]_vars

\* the group created by actor 1 that the passive members have joined
LargeGroup ==
    [exists |-> TRUE, creator |-> 1, name |-> MAX_GROUP_NAME, members |-> <<1>> \o Fillers,
     token_gate |-> NoGate]

\* no group yet, or the large group
InitGroup ==
    /\ desc = [a \in Trio |-> NoAccount]
    /\ profile = [a \in Trio |-> FALSE]
    /\ conv = [h \in Hashes |-> NoConversation]
    /\ now = 1
    /\ res = Outcome("none", DefaultPubkey, DefaultPubkey, "Ok")
    /\ hq = NoQuery
    /\ cq = NoCircuit
    /\ group \in {NoGroup, LargeGroup}
    /\ ginvite = [a \in Actors |-> NoGroupInvite]
    /\ gkey = [a \in Actors |-> NoKeyShare]
    /\ stale = [a \in Actors |-> FALSE]
    /\ trail = [p \in Pairs |-> NoTrail]

\* the group instructions signed by the actors, on an ungated group
NextGroup ==
    \/ \E a \in Actors, n \in {MAX_GROUP_NAME, MAX_GROUP_NAME + 1} : CreateGroup(a, n, NoGate)
    \/ \E a \in Actors, invitee \in Actors : InviteToGroup(a, invitee)
    \/ \E a \in Actors : AcceptGroupInvite(a, NoTokenAccount)
    \/ \E a \in Actors : RejectGroupInvite(a)
    \/ \E a \in Actors : LeaveGroup(a)
    \/ \E a \in Actors, m \in Actors : KickMember(a, m)
    \/ \E a \in Actors : CloseGroup(a)

SpecGroup == InitGroup /\ [][NextGroup]_vars

Mints == 1 .. NumMints
Amounts == 0 .. MaxAmount
Gates == {Gate(m, b) : m \in Mints, b \in Amounts}
\* the token accounts a caller can pass: none, or any account of the token program
TokenAccounts ==
    {NoTokenAccount} \cup {TokenAccount(o, m, n) : o \in Ids, m \in Mints, n \in Amounts}
GroupNames == {NoName, MAX_GROUP_NAME - 1, MAX_GROUP_NAME, MAX_GROUP_NAME + 1}

\* the instructions of a group with a token gate, signed by the identities
NextGate ==
    \/ \E a \in Ids, gate \in Gates \cup {NoGate} : CreateGroup(a, MAX_GROUP_NAME, gate)
    \/ \E a \in Ids, n \in GroupNames, gate \in Gates \cup {NoGate} : UpdateGroup(a, n, gate)
    \/ \E a \in Ids, invitee \in Ids : InviteToGroup(a, invitee)
    \/ \E a \in Ids, acct \in TokenAccounts : AcceptGroupInvite(a, acct)
    \/ \E a \in Ids : CloseGroup(a)

SpecGate == Init /\ [][NextGate]_vars

Blobs == 1 .. NumBlobs
\* the keys a caller can pass: of the size a share has room for, or one byte more
EncryptedKeys == {Blob(n, k) : n \in {KEY_ROOM, KEY_ROOM + 1}, k \in Blobs}

\* the instructions of a group and of its key shares, signed by the identities
NextKey ==
    \/ \E a \in Ids : CreateGroup(a, MAX_GROUP_NAME, NoGate)
    \/ \E a \in Ids, invitee \in Ids : InviteToGroup(a, invitee)
    \/ \E a \in Ids : AcceptGroupInvite(a, NoTokenAccount)
    \/ \E a \in Ids : LeaveGroup(a)
    \/ \E a \in Ids, m \in Ids : KickMember(a, m)
    \/ \E a \in Ids : CloseGroup(a)
    \/ \E a \in Ids, acct \in Ids, k \in EncryptedKeys, n \in Blobs : StoreGroupKey(a, acct, k, n)
    \/ \E a \in Ids, acct \in Ids : CloseGroupKey(a, acct)

SpecKey == Init /\ [][NextKey]_vars

CircuitKeys == 1 .. NumKeys
SlotStatuses == {ACCEPTED - 1, ACCEPTED, ACCEPTED + 1}
SlotEntries == {ContactEntry(k, st) : k \in CircuitKeys, st \in SlotStatuses}
\* what the slots after the leading ones hold: zeroes, or an accepted entry
TailEntries == {EmptyEntry, ContactEntry(1, ACCEPTED)}
\* the counts a list carries: around the leading slots and around the capacity
Counts == (0 .. (NumSlots + 1)) \cup {MAX_CONTACTS, MAX_CONTACTS + 1}
ContactLists ==
    {ContactList([i \in 1 .. MAX_CONTACTS |-> IF i <= NumSlots THEN lead[i] ELSE tail], n) :
        lead \in [1 .. NumSlots -> SlotEntries], tail \in TailEntries, n \in Counts}

\* a contact list and a query, before either circuit has run
InitCircuit ==
    /\ desc = [a \in Trio |-> NoAccount]
    /\ profile = [a \in Trio |-> FALSE]
    /\ conv = [h \in Hashes |-> NoConversation]
    /\ now = 1
    /\ res = Outcome("none", DefaultPubkey, DefaultPubkey, "Ok")
    /\ hq = NoQuery
    /\ \E list \in ContactLists, q \in CircuitKeys : cq = [NoCircuit EXCEPT !.list = list, !.q = q]
    /\ group = NoGroup
    /\ ginvite = [a \in Actors |-> NoGroupInvite]
    /\ gkey = [a \in Actors |-> NoKeyShare]
    /\ stale = [a \in Actors |-> FALSE]
    /\ trail = [p \in Pairs |-> NoTrail]

NextCircuit == IsAcceptedContact \/ CountAccepted

SpecCircuit == InitCircuit /\ [][NextCircuit]_vars

\* get_chat_hash evaluated on a pair of keys, in both argument orders
ChatHash ==
    /\ hq.done = FALSE
    /\ hq' = [hq EXCEPT !.ab = get_chat_hash(hq.a, hq.b),
                        !.ba = get_chat_hash(hq.b, hq.a),
                        !.done = TRUE]
    /\ UNCHANGED <<desc, profile, conv, now, res, cq, groupVars, trail>>

\* the pair of keys is any two public keys
InitHash ==
    /\ desc = [a \in Trio |-> NoAccount]
    /\ profile = [a \in Trio |-> FALSE]
    /\ conv = [h \in Hashes |-> NoConversation]
    /\ now = 1
    /\ res = Outcome("none", DefaultPubkey, DefaultPubkey, "Ok")
    /\ \E a \in Pubkeys, b \in Pubkeys : hq = [NoQuery EXCEPT !.a = a, !.b = b]
    /\ cq = NoCircuit
    /\ group = NoGroup
    /\ ginvite = [a \in Actors |-> NoGroupInvite]
    /\ gkey = [a \in Actors |-> NoKeyShare]
    /\ stale = [a \in Actors |-> FALSE]
    /\ trail = [p \in Pairs |-> NoTrail]

NextHash == ChatHash

SpecHash == InitHash /\ [][NextHash]_vars


\* ------------------------------------------------------------------ claims

\* the states of the two entries of the pair (a, b), before and after a step
Mine(a, b) == StateOf(desc[a], b)
MineAfter(a, b) == StateOf(desc'[a], b)

\* both identities are in the graph: each has a descriptor
BothExist(a, b) == Exists(desc[a]) /\ Exists(desc[b])

\* an entry the handlers of invite let pass
Invitable == {"None", "Rejected"}

\* the entries of a's list other than the one for b are what they were
OthersKept(a, b) ==
    \A w \in Trio \ {b} : MineAfter(a, w) = Mine(a, w)

\* C1: for distinct S, C (S in the graph), invite(S,C) succeeds exactly when
\* the supplied hash is hash(S,C) and each side's entry for the other is
\* absent or Rejected; then S holds Invited for C and C holds Requested for S,
\* an absent entry appended and a Rejected one updated in place.
C1_InviteSucceedsExactlyWhen ==
    [][\A s \in Trio : \A c \in Trio \ {s}, h \in Hashes :
        (Exists(desc[s]) /\ Invite(s, c, h)) =>
            /\ (res'.err = "Ok") <=>
                   /\ h = get_chat_hash(s, c)
                   /\ Mine(s, c) \in Invitable
                   /\ Mine(c, s) \in Invitable
            /\ (res'.err = "Ok") =>
                   /\ MineAfter(s, c) = "Invited"
                   /\ MineAfter(c, s) = "Requested"
                   /\ Len(desc'[s].peers) = Len(desc[s].peers) + (IF Mine(s, c) = "None" THEN 1 ELSE 0)
                   /\ Len(desc'[c].peers) = Len(desc[c].peers) + (IF Mine(c, s) = "None" THEN 1 ELSE 0)
                   /\ OthersKept(s, c) /\ OthersKept(c, s)]_vars

\* C2: for S and C in the graph, accept(S,C) succeeds only when S holds
\* Requested for C and C holds Invited for S, and then both become Accepted;
\* in every other state it fails, NotRequested if the caller's side is wrong
\* and otherwise NotInvited, and changes nothing; the sender of the invite
\* cannot accept it.
C2_AcceptOnlyRequestedInvited ==
    [][\A me \in Ids : \A peer \in Ids \ {me} :
        (BothExist(me, peer) /\ Accept(me, peer)) =>
            LET ok == Mine(me, peer) = "Requested" /\ Mine(peer, me) = "Invited"
            IN /\ (res'.err = "Ok") <=> ok
               /\ ok => /\ MineAfter(me, peer) = "Accepted"
                        /\ MineAfter(peer, me) = "Accepted"
               /\ ~ok => /\ desc' = desc
                         /\ res'.err = IF Mine(me, peer) # "Requested"
                                       THEN "NotRequested" ELSE "NotInvited"
               /\ Mine(me, peer) = "Invited" => res'.err = "NotRequested"]_vars

\* C2 witness: the invitee has accepted and both sides are Accepted
C2_Witness ==
    /\ res.op = "accept" /\ res.err = "Ok"
    /\ Mine(res.payer, res.peer) = "Accepted"
    /\ Mine(res.peer, res.payer) = "Accepted"

\* C3: for S and C in the graph, invite(S,C) with the correct hash fails with
\* AlreadyInvited whenever either side's entry for the other is Blocked,
\* Invited, Requested or Accepted, whoever blocked and whoever invites.
C3_ReinviteAlreadyInvited ==
    [][\A s \in Ids : \A c \in Ids \ {s} :
        (/\ BothExist(s, c)
         /\ Invite(s, c, get_chat_hash(s, c))
         /\ \/ Mine(s, c) \in PeerStates \ {"Rejected"}
            \/ Mine(c, s) \in PeerStates \ {"Rejected"})
        => res'.err = "AlreadyInvited"]_vars

C5_MirroredEntries ==
    \A a \in Ids : \A b \in Ids \ {a} :
        (Mine(a, b) # "None") <=> (Mine(b, a) # "None")

\* C6: for a pair with entries on both sides in any state, block sets both
\* entries to Blocked, and unblock of a Blocked pair, by either party, sets
\* both to Rejected whatever the pair was before the block.
C6_BlockThenUnblockRejected ==
    [][\A me \in Ids : \A peer \in Ids \ {me} :
        /\ (Block(me, peer) /\ Mine(me, peer) # "None" /\ Mine(peer, me) # "None") =>
              /\ res'.err = "Ok"
              /\ MineAfter(me, peer) = "Blocked"
              /\ MineAfter(peer, me) = "Blocked"
        /\ (Unblock(me, peer) /\ Mine(me, peer) = "Blocked" /\ Mine(peer, me) = "Blocked") =>
              /\ res'.err = "Ok"
              /\ MineAfter(me, peer) = "Rejected"
              /\ MineAfter(peer, me) = "Rejected"]_vars

\* C6 witness: a Blocked pair has been unblocked and both sides are Rejected
C6_Witness ==
    /\ res.op = "unblock" /\ res.err = "Ok"
    /\ Mine(res.payer, res.peer) = "Rejected"
    /\ Mine(res.peer, res.payer) = "Rejected"

\* C7: for S and C in the graph, reject(S,C) succeeds exactly when S holds
\* Requested or Accepted for C and C holds Invited or Accepted for S, and then
\* both become Rejected; otherwise it fails with NotRequested or NotInvited
\* and changes nothing; the sender of a pending invite cannot reject it.
C7_RejectPendingOrAccepted ==
    [][\A me \in Ids : \A peer \in Ids \ {me} :
        (BothExist(me, peer) /\ Reject(me, peer)) =>
            LET ok == /\ Mine(me, peer) \in {"Requested", "Accepted"}
                      /\ Mine(peer, me) \in {"Invited", "Accepted"}
            IN /\ (res'.err = "Ok") <=> ok
               /\ ok => /\ MineAfter(me, peer) = "Rejected"
                        /\ MineAfter(peer, me) = "Rejected"
               /\ ~ok => /\ desc' = desc
                         /\ res'.err \in {"NotRequested", "NotInvited"}
               /\ Mine(me, peer) = "Invited" => res'.err = "NotRequested"]_vars

\* C7 witness: the sender of the last invite has removed the accepted contact
C7_Witness ==
    /\ res.op = "reject" /\ res.err = "Ok"
    /\ Mine(res.payer, res.peer) = "Rejected"
    /\ Mine(res.peer, res.payer) = "Rejected"
    /\ \E h \in Hashes : conv[h].participants = <<res.payer, res.peer>>

\* C8: the call that has just succeeded, made again with the same arguments,
\* fails and leaves both entries unchanged (invite, accept, reject, unblock),
\* and a replayed block leaves both entries Blocked.
C8_ReplayDoesNotReapply ==
    [][\A me \in Ids : \A peer \in Ids \ {me} :
        (res.err = "Ok" /\ res.payer = me /\ res.peer = peer) =>
            /\ (res.op = "invite" /\ Invite(me, peer, get_chat_hash(me, peer))) =>
                  res'.err = "AlreadyInvited" /\ desc' = desc
            /\ (res.op = "accept" /\ Accept(me, peer)) =>
                  res'.err = "NotRequested" /\ desc' = desc
            /\ (res.op = "reject" /\ Reject(me, peer)) =>
                  res'.err = "NotRequested" /\ desc' = desc
            /\ (res.op = "unblock" /\ Unblock(me, peer)) =>
                  res'.err = "NotInvited" /\ desc' = desc
            /\ (res.op = "block" /\ Block(me, peer)) =>
                  MineAfter(me, peer) = "Blocked" /\ MineAfter(peer, me) = "Blocked"]_vars

\* C8 witness: an accept has just been replayed on an Accepted pair and failed
C8_Witness ==
    /\ res.op = "accept" /\ res.err = "NotRequested"
    /\ Mine(res.payer, res.peer) = "Accepted"
    /\ Mine(res.peer, res.payer) = "Accepted"

\* x precedes y in the byte-wise lexicographic order
LexLess(x, y) ==
    \E i \in 1 .. KeyLen :
        /\ x[i] < y[i]
        /\ \A j \in 1 .. (i - 1) : x[j] = y[j]

\* C9: for distinct keys A and B, get_chat_hash(A,B) = get_chat_hash(B,A) =
\* H(min(A,B) ++ max(A,B)) under the byte-wise lexicographic order.
C9_ChatHashOrderIndependent ==
    (hq.done /\ hq.a # hq.b) =>
        LET x == to_bytes(hq.a)
            y == to_bytes(hq.b)
            lo == IF LexLess(x, y) THEN x ELSE y
            hi == IF LexLess(x, y) THEN y ELSE x
        IN /\ hq.ab = hq.ba
           /\ hq.ab = Sha256(lo \o hi)

\* C9 witness: the hash was computed for a pair given larger key first whose
\* first bytes agree
C9_Witness ==
    /\ hq.done
    /\ to_bytes(hq.a)[1] = to_bytes(hq.b)[1]
    /\ LexLess(to_bytes(hq.b), to_bytes(hq.a))
    /\ hq.ab = Sha256(to_bytes(hq.b) \o to_bytes(hq.a))

\* C10: in every reachable state an existing group has at most 30 members.
C10_AtMostThirtyMembers ==
    group.exists => Len(group.members) <= MAX_MEMBERS

\* C10 witness: the group is full while an invite is still Pending: more
\* invites were outstanding than there were free slots
C10_Witness ==
    /\ group.exists
    /\ Len(group.members) = MAX_MEMBERS
    /\ \E a \in Actors : ginvite[a].exists /\ ginvite[a].status = "Pending"
                         /\ ~Contains(group.members, a)
    /\ \E a \in Actors : ginvite[a].exists /\ ginvite[a].status = "Accepted"
                         /\ group.members[MAX_MEMBERS] = a

\* C11: an existing group always has its creator among its members; leave by
\* the creator fails CannotRemoveCreator, a kick aimed at the creator never
\* succeeds (CannotRemoveCreator once the caller has passed the admin check),
\* and a step that keeps the group keeps its creator a member.
C11_CreatorAlwaysMember ==
    /\ [](group.exists => Contains(group.members, group.creator))
    /\ [][/\ \A a \in Actors :
                (group.exists /\ LeaveGroup(a) /\ a = group.creator) =>
                    res'.err = "CannotRemoveCreator" /\ group' = group
          /\ \A a \in Actors :
                (group.exists /\ KickMember(a, group.creator)) =>
                    /\ group' = group
                    /\ res'.err = IF a = group.creator THEN "CannotRemoveCreator"
                                  ELSE "NotGroupAdmin"
          /\ (group.exists /\ group'.exists /\ group'.creator = group.creator) =>
                Contains(group'.members, group.creator)]_vars

\* C11 witness: the creator of a group with other members has just tried to
\* kick itself and is still a member
C11_Witness ==
    /\ res.op = "kick_member" /\ res.err = "CannotRemoveCreator"
    /\ group.exists /\ res.peer = group.creator
    /\ Len(group.members) > 1
    /\ Contains(group.members, group.creator)

\* members[i] # members[j] for i # j
NoDuplicates(members) ==
    \A i \in 1 .. Len(members) : \A j \in 1 .. Len(members) :
        i # j => members[i] # members[j]

\* C12: in every reachable state the member list of an existing group holds
\* no identity twice.
C12_NoDuplicateMembers ==
    group.exists => NoDuplicates(group.members)

\* C13: update never makes the gate of a gated group absent: with gate = none
\* a successful update leaves the gate as it is, with a gate it replaces it,
\* and an update by anyone but the creator fails NotGroupAdmin and changes
\* neither name nor gate.
C13_GateNeverAbsent ==
    [][\A a \in Ids, n \in GroupNames, gate \in Gates \cup {NoGate} :
        (group.exists /\ UpdateGroup(a, n, gate)) =>
            /\ group'.exists
            /\ group.token_gate.some => group'.token_gate.some
            /\ (res'.err = "Ok" /\ ~gate.some) => group'.token_gate = group.token_gate
            /\ (res'.err = "Ok" /\ gate.some) => group'.token_gate = gate
            /\ a # group.creator =>
                  /\ res'.err = "NotGroupAdmin"
                  /\ group'.name = group.name
                  /\ group'.token_gate = group.token_gate]_vars

\* C13 witness: the creator has renamed a gated group and the gate is still there
C13_Witness ==
    /\ res.op = "update_group" /\ res.err = "Ok"
    /\ group.exists /\ res.payer = group.creator
    /\ group.name = MAX_GROUP_NAME - 1
    /\ group.token_gate.some

\* C14: on a gated group, accept by the holder of a Pending invite adds the
\* caller only with a token account whose owner is the caller, whose mint is
\* the gate's and whose amount is at least min_balance; no account fails
\* TokenAccountRequired, another owner fails InvalidTokenAccount, a too small
\* amount fails InsufficientTokenBalance, and every failure leaves the members
\* and the Pending invite as they were.
C14_GatedAccept ==
    [][\A a \in Ids, acct \in TokenAccounts :
        (/\ group.exists /\ group.token_gate.some
         /\ ginvite[a].exists /\ ginvite[a].status = "Pending" /\ ginvite[a].invitee = a
         /\ AcceptGroupInvite(a, acct)) =>
            LET gate == group.token_gate
                ok == /\ acct.some
                      /\ acct.owner = a
                      /\ acct.mint = gate.token_mint
                      /\ acct.amount >= gate.min_balance
            IN /\ (group'.members # group.members) => ok
               /\ ok => /\ res'.err = "Ok"
                        /\ group'.members = Append(group.members, a)
                        /\ ginvite'[a].status = "Accepted"
               /\ ~acct.some => res'.err = "TokenAccountRequired"
               /\ (acct.some /\ acct.owner # a) => res'.err = "InvalidTokenAccount"
               /\ (acct.some /\ acct.owner = a /\ acct.amount < gate.min_balance) =>
                     res'.err = "InsufficientTokenBalance"
               /\ ~ok => /\ res'.err # "Ok"
                         /\ group' = group
                         /\ ginvite' = ginvite]_vars

\* C14 witness: an accept on a gated group has failed for the balance; the
\* caller is no member and its invite is still Pending
C14_Witness ==
    /\ res.op = "accept_group_invite" /\ res.err = "InsufficientTokenBalance"
    /\ group.exists /\ group.token_gate.some
    /\ ~Contains(group.members, res.payer)
    /\ ginvite[res.payer].status = "Pending" /\ ginvite[res.payer].exists

\* slot i of the list is within count and within the capacity
ActiveSlot(list, i) == i < list.count /\ i < MAX_CONTACTS

\* slot i holds the key q with status Accepted
AcceptedMatch(list, q, i) ==
    list.contacts[i + 1].pubkey = q /\ list.contacts[i + 1].status = ACCEPTED

Slots == 0 .. (MAX_CONTACTS - 1)

\* C15: is_accepted_contact(list, q) is true exactly when some slot i with
\* i < count and i < 100 holds q with status Accepted; slots from count on
\* never make it true, nor does a match whose status is not Accepted.
C15_IsAcceptedContact ==
    cq.op = "is_accepted_contact" =>
        /\ cq.out \in BOOLEAN
        /\ cq.out <=> \E i \in Slots : ActiveSlot(cq.list, i) /\ AcceptedMatch(cq.list, cq.q, i)

\* C15 witness: the answer is false for a key that is Accepted only in slots
\* from count on and matches an active slot with another status
C15_Witness ==
    /\ cq.op = "is_accepted_contact" /\ cq.out = FALSE
    /\ \E i \in Slots : ~ActiveSlot(cq.list, i) /\ AcceptedMatch(cq.list, cq.q, i)
    /\ \E i \in Slots : /\ ActiveSlot(cq.list, i)
                        /\ cq.list.contacts[i + 1].pubkey = cq.q
                        /\ cq.list.contacts[i + 1].status # ACCEPTED

\* C16: count_accepted(list) is the number of slots i with i < count and
\* i < 100 whose status is Accepted: 0 for count = 0, 100 for count = 100 with
\* every status Accepted, never more than min(count, 100).
C16_CountAccepted ==
    cq.op = "count_accepted" =>
        /\ cq.out = Cardinality({i \in Slots : /\ ActiveSlot(cq.list, i)
                                               /\ cq.list.contacts[i + 1].status = ACCEPTED})
        /\ cq.out <= cq.list.count /\ cq.out <= MAX_CONTACTS
        /\ cq.list.count = 0 => cq.out = 0
        /\ (/\ cq.list.count = MAX_CONTACTS
            /\ \A i \in Slots : cq.list.contacts[i + 1].status = ACCEPTED) =>
               cq.out = MAX_CONTACTS

\* C16 witness: a full list of Accepted entries has been counted as 100
C16_Witness ==
    /\ cq.op = "count_accepted" /\ cq.out = MAX_CONTACTS
    /\ cq.list.count = MAX_CONTACTS
    /\ \A i \in Slots : cq.list.contacts[i + 1].status = ACCEPTED

\* C17: whatever the list and the query, both circuits visit the slots
\* 0, 1, ..., 99 in this order, each once, also after a match was found.
C17_FixedIterations ==
    cq.op # "none" => cq.visited = [k \in 1 .. MAX_CONTACTS |-> k - 1]

\* C17 witness: the scan found its match in the first slot and went on over
\* all slots
C17_Witness ==
    /\ cq.op = "is_accepted_contact" /\ cq.out = TRUE
    /\ ActiveSlot(cq.list, 0) /\ AcceptedMatch(cq.list, cq.q, 0)
    /\ Len(cq.visited) = MAX_CONTACTS

\* C18: with A's contact list mirroring A's entries, after register(A),
\* register(B), invite(A,B) and accept(B,A) the query of A's mirror for B is
\* true, and after a following reject by A it is false; in general the query
\* is true exactly when A's entry for B is Accepted.
C18_EndToEnd ==
    [][\A a \in Ids : \A b \in Ids \ {a} :
        (res' = res /\ cq'.q = b /\ MirrorQuery(a, b)) =>
            /\ cq'.out <=> (Mine(a, b) = "Accepted")
            /\ (res = Outcome("accept", b, a, "Ok") /\ conv[get_chat_hash(a, b)].participants = <<a, b>>)
                  => cq'.out = TRUE
            /\ (res = Outcome("reject", a, b, "Ok") /\ conv[get_chat_hash(a, b)].participants = <<a, b>>)
                  => cq'.out = FALSE]_vars

\* C18 witness: A invited B, both are registered, A has rejected the accepted
\* contact, and the query of A's refreshed mirror for B has answered false
C18_Witness ==
    \E a \in Ids : \E b \in Ids \ {a} :
        /\ profile[a] /\ profile[b]
        /\ conv[get_chat_hash(a, b)].participants = <<a, b>>
        /\ res = Outcome("reject", a, b, "Ok")
        /\ cq.op = "is_accepted_contact" /\ cq.q = b /\ cq.out = FALSE
        /\ cq.list = mirror(desc[a])
        /\ cq.list.count = 1 /\ cq.list.contacts[1] = ContactEntry(b, status_code("Rejected"))

\* C19: every successful invite(S,C) writes the conversation record of
\* hash(S,C): participants (S,C), caller first, and created_at the current
\* time, whether or not the record existed, and no other record; accept,
\* reject, block and unblock leave every conversation record as it was.
C19_ConversationRewritten ==
    [][\A s \in Ids : \A c \in Ids \ {s} :
        /\ \A h \in Hashes :
              (Invite(s, c, h) /\ res'.err = "Ok") =>
                  /\ conv'[get_chat_hash(s, c)] = [participants |-> <<s, c>>, created_at |-> now]
                  /\ \A k \in Hashes \ {get_chat_hash(s, c)} : conv'[k] = conv[k]
        /\ (Accept(s, c) \/ Reject(s, c) \/ Block(s, c) \/ Unblock(s, c)) => conv' = conv]_vars

\* C19 witness: S has invited C a second time, at a later time, and the
\* conversation record carries the time of the second invite
C19_Witness ==
    \E s \in Ids : \E c \in Ids \ {s} :
        /\ res = Outcome("invite", s, c, "Ok")
        /\ desc[s].peers = <<Peer(c, "Invited")>>
        /\ desc[s].size = DESCRIPTOR_HEADER + 2 * PEER_SIZE
        /\ now > 1
        /\ conv[get_chat_hash(s, c)] = [participants |-> <<s, c>>, created_at |-> now]

C21_InviteConsumedOnce ==
    [][\A a \in Actors :
        /\ (group.exists /\ ginvite[a].exists /\ AcceptGroupInvite(a, NoTokenAccount)) =>
              /\ res'.err = "Ok" =>
                    /\ ginvite[a].status = "Pending" /\ ginvite[a].invitee = a
                    /\ group' = [group EXCEPT !.members = Append(@, a)]
                    /\ ginvite' = [ginvite EXCEPT ![a].status = "Accepted"]
              /\ ginvite[a].status # "Pending" =>
                    res'.err = "NotInvited" /\ group' = group /\ ginvite' = ginvite
        /\ (ginvite[a].exists /\ RejectGroupInvite(a)) =>
              /\ group' = group
              /\ res'.err = "Ok" =>
                    /\ ginvite[a].status = "Pending" /\ ginvite[a].invitee = a
                    /\ ginvite' = [ginvite EXCEPT ![a].status = "Rejected"]
              /\ ginvite[a].status # "Pending" =>
                    res'.err = "NotInvited" /\ ginvite' = ginvite
        /\ (ginvite[a].exists /\ ginvite[a].status # "Pending" /\ ginvite'[a].status = "Pending") =>
              /\ res'.op = "invite_to_group" /\ res'.err = "Ok" /\ res'.peer = a
              /\ group' = group]_vars

\* C21 witness: the caller rejected its invite and has then tried to accept
\* it: the accept failed, the invite is Rejected and the caller is no member
C21_Witness ==
    /\ res.op = "accept_group_invite" /\ res.err = "NotInvited"
    /\ group.exists /\ ~Contains(group.members, res.payer)
    /\ ginvite[res.payer].exists /\ ginvite[res.payer].status = "Rejected"

\* members with its entry at index i taken out, the others in their order
Without(members, i) == SubSeq(members, 1, i - 1) \o SubSeq(members, i + 1, Len(members))

\* the step removed exactly k from the members and changed nothing else
RemovedOnly(k) ==
    /\ \E i \in 1 .. Len(group.members) :
          /\ group.members[i] = k
          /\ group' = [group EXCEPT !.members = Without(group.members, i)]
    /\ ~Contains(group'.members, k)
    /\ ginvite' = ginvite

\* C22: on an existing group kick(caller, target) fails NotGroupAdmin when the
\* caller is not the creator, else CannotRemoveCreator when the target is the
\* creator, else NotGroupMember when the target is no member; otherwise the
\* target and nothing else is removed and the remaining members keep their
\* order. leave fails CannotRemoveCreator for the creator, else NotGroupMember
\* for a non-member, and otherwise removes the caller and nothing else. A
\* failure changes nothing.
C22_KickAndLeave ==
    [][/\ \A a \in Actors, m \in Actors :
            (group.exists /\ KickMember(a, m)) =>
                /\ res'.err = IF a # group.creator THEN "NotGroupAdmin"
                              ELSE IF m = group.creator THEN "CannotRemoveCreator"
                              ELSE IF ~Contains(group.members, m) THEN "NotGroupMember"
                              ELSE "Ok"
                /\ res'.err = "Ok" => RemovedOnly(m)
                /\ res'.err # "Ok" => group' = group /\ ginvite' = ginvite
       /\ \A a \in Actors :
            (group.exists /\ LeaveGroup(a)) =>
                /\ res'.err = IF a = group.creator THEN "CannotRemoveCreator"
                              ELSE IF ~Contains(group.members, a) THEN "NotGroupMember"
                              ELSE "Ok"
                /\ res'.err = "Ok" => RemovedOnly(a)
                /\ res'.err # "Ok" => group' = group /\ ginvite' = ginvite]_vars

\* C22 witness: the creator has kicked the member that joined before the last
\* one, and the other two members are left in their order
C22_Witness ==
    \E c \in Actors : \E m \in Actors \ {c} : \E x \in Actors \ {c, m} :
        /\ res = Outcome("kick_member", c, m, "Ok")
        /\ group.exists /\ group.creator = c
        /\ group.members = <<c, x>>
        /\ ginvite[x] = [exists |-> TRUE, inviter |-> m, invitee |-> x, status |-> "Accepted"]

\* C23: whenever a pair that has been Blocked is Accepted, a successful
\* unblock, then a successful invite between the two, then a successful accept
\* by the invitee of that invite have occurred since it was last Blocked.
C23_NoSilentRestoration ==
    \A p \in Pairs :
        PairIs(desc, p, "Accepted") => trail[p].phase \in {"clear", "accepted"}

\* C24: store by a caller succeeds only on an existing group that lists the
\* caller, and then writes the caller's share and no other; on an existing
\* group a caller who is no member gets NotGroupMember; a failure writes
\* nothing; the share of m changes or disappears only in a successful store or
\* close by m itself, so no other identity's instruction and no leave, kick or
\* close of the group touches it.
C24_KeyShareOwnedByMember ==
    [][/\ \A a \in Ids, acct \in Ids, k \in EncryptedKeys, n \in Blobs :
            StoreGroupKey(a, acct, k, n) =>
                /\ res'.err = "Ok" =>
                      /\ group.exists /\ Contains(group.members, a) /\ acct = a
                      /\ gkey' = [gkey EXCEPT ![a] = [exists |-> TRUE, member |-> a,
                                                      encrypted_key |-> k, nonce |-> n]]
                /\ (group.exists /\ acct = a /\ ~Contains(group.members, a)) =>
                      res'.err = "NotGroupMember"
                /\ res'.err # "Ok" => gkey' = gkey
       /\ \A m \in Ids :
            gkey'[m] # gkey[m] =>
                /\ res'.payer = m /\ res'.err = "Ok"
                /\ res'.op \in {"store_group_key", "close_group_key"}]_vars

\* C24 witness: the group was closed after m stored its share, another
\* identity has just failed to close that share, and the share is still there
C24_Witness ==
    \E m \in Ids : \E a \in Ids \ {m} :
        /\ ~group.exists
        /\ res = Outcome("close_group_key", a, m, "ConstraintSeeds")
        /\ gkey[m].exists /\ gkey[m].member = m /\ gkey[m].encrypted_key.len = KEY_ROOM

\* C25: register of an identity that has a descriptor leaves its peer entries
\* as they are, and register of an identity without one starts it with no
\* peer; register right after invite(A,B) to an unregistered B succeeds with
\* B's entry for A still Requested, and the accept(B,A) that follows succeeds
\* and leaves both sides Accepted.
C25_RegisterKeepsPeers ==
    [][\A b \in Trio :
        /\ \A n \in {MAX_DISPLAY_NAME, MAX_DISPLAY_NAME + 1} :
              Register(b, n) =>
                  /\ Exists(desc[b]) => desc'[b].peers = desc[b].peers
                  /\ (~Exists(desc[b]) /\ res'.err = "Ok") =>
                        desc'[b].peers = <<>> /\ desc'[b].owner = b
                  /\ \A a \in Trio \ {b} :
                        (res = Outcome("invite", a, b, "Ok") /\ ~profile[b] /\ n <= MAX_DISPLAY_NAME) =>
                            /\ res'.err = "Ok" /\ profile'[b]
                            /\ MineAfter(b, a) = "Requested" /\ MineAfter(a, b) = "Invited"
        /\ \A a \in Trio \ {b} :
              (/\ res = Outcome("register", b, DefaultPubkey, "Ok")
               /\ Mine(b, a) = "Requested" /\ Mine(a, b) = "Invited"
               /\ Accept(b, a)) =>
                  /\ res'.err = "Ok"
                  /\ MineAfter(b, a) = "Accepted" /\ MineAfter(a, b) = "Accepted"]_vars

\* C25 witness: B has just registered and its descriptor, created by A's
\* invite, still holds Requested for A
C25_Witness ==
    \E b \in Trio : \E a \in Trio \ {b} :
        /\ res = Outcome("register", b, DefaultPubkey, "Ok")
        /\ profile[b] /\ desc[b].owner = b
        /\ desc[b].peers = <<Peer(a, "Requested")>>
        /\ Mine(a, b) = "Invited"

\* what the two entries of a pair can be together
PairStates ==
    {<<"None", "None">>, <<"Invited", "Requested">>, <<"Requested", "Invited">>,
     <<"Accepted", "Accepted">>, <<"Rejected", "Rejected">>, <<"Blocked", "Blocked">>}

\* C26: in every state reached by register, invite, accept, reject, block and
\* unblock each identity holds at most one entry per peer, and the two
\* entries of every pair are both absent, Invited and Requested, Requested
\* and Invited, both Accepted, both Rejected or both Blocked.
C26_PairStates ==
    \A a \in Trio :
        /\ \A i \in 1 .. Len(desc[a].peers) : \A j \in 1 .. Len(desc[a].peers) :
              i # j => desc[a].peers[i].wallet # desc[a].peers[j].wallet
        /\ \A b \in Trio \ {a} : <<Mine(a, b), Mine(b, a)>> \in PairStates

\* C26 witness: an identity holds two entries, one Blocked and one Accepted,
\* each mirrored by its peer
C26_Witness ==
    \E a \in Trio : \E b \in Trio \ {a} : \E c \in Trio \ {a, b} :
        /\ Len(desc[a].peers) = 2
        /\ <<Mine(a, b), Mine(b, a)>> = <<"Blocked", "Blocked">>
        /\ <<Mine(a, c), Mine(c, a)>> = <<"Accepted", "Accepted">>

\* C27: when A and B, both in the graph and with no entry or a Rejected entry
\* for each other on both sides, each invite the other, the invite that the
\* store runs first succeeds and leaves (Invited, Requested), and the one it
\* runs second fails AlreadyInvited and leaves that state as it is; this in
\* either order.
C27_MutualInvites ==
    [][\A a \in Ids : \A b \in Ids \ {a} :
        /\ (/\ BothExist(a, b)
            /\ <<Mine(a, b), Mine(b, a)>> \in {<<"None", "None">>, <<"Rejected", "Rejected">>}
            /\ Invite(a, b, get_chat_hash(a, b))) =>
                /\ res'.err = "Ok"
                /\ MineAfter(a, b) = "Invited" /\ MineAfter(b, a) = "Requested"
        /\ (/\ res = Outcome("invite", a, b, "Ok")
            /\ Invite(b, a, get_chat_hash(b, a))) =>
                /\ res'.err = "AlreadyInvited"
                /\ desc' = desc
                /\ Mine(a, b) = "Invited" /\ Mine(b, a) = "Requested"]_vars

\* C28: after any sequence of register and invite every descriptor has room
\* for its peers (size >= 8 + 32 + 4 + 33 * peers), and an invite(S,C) by an S
\* in the graph with the right hash and entries absent or Rejected on both
\* sides succeeds and leaves C with an entry for S that fits C's descriptor,
\* also when C has sent invites before.
C28_RoomForPeers ==
    /\ [](\A a \in Trio : Exists(desc[a]) => Fits(desc[a]))
    /\ [][\A s \in Trio : \A c \in Trio \ {s} :
            (/\ Exists(desc[s])
             /\ Mine(s, c) \in Invitable /\ Mine(c, s) \in Invitable
             /\ Invite(s, c, get_chat_hash(s, c))) =>
                /\ res'.err = "Ok"
                /\ MineAfter(c, s) = "Requested"
                /\ Fits(desc'[c])]_vars

\* C29: accept_invite succeeds only on an invite written by invite_member
\* since the group was last created: an invite that was Pending when its
\* group was closed, and that no invite_member has written since, does not
\* admit its invitee to a group created later with the same group_id.
C29_InvitePerInstance ==
    [][\A a \in Actors :
        (AcceptGroupInvite(a, NoTokenAccount) /\ res'.err = "Ok") => ~stale[a]]_vars

====
